---- MODULE Spec2Model ----
(***************************************************************************)
(* FinCrypt: hybrid ECIES/AES-CBC/OAEP encryption with ECDSA signatures.   *)
(* Model of src/oaep.py and src/fincrypt.py.                               *)
(*                                                                         *)
(* Byte strings are sequences over 0..255.  Python's unbounded integers    *)
(* are kept exact as canonical little-endian base-256 digit sequences (no  *)
(* high zero digit), so int.from_bytes / int.to_bytes are real conversions.*)
(***************************************************************************)
EXTENDS Integers, Sequences, FiniteSets, TLC

VARIABLES
    pc,        \* position of the harness that drives the calls
    msg,       \* plaintext handed to the operation under test
    nonce,     \* value drawn from random.getrandbits in oaep_pad
    padded,    \* output of oaep_pad
    unpadded,  \* result of oaep_unpad
    blob,      \* binary blob handed to the armor writer
    label,     \* label of the armored text
    text,      \* armored text
    parsed,    \* result of reading the armored text back
    sent,      \* what encrypt_and_sign was called with
    wire,      \* the message blob in transit
    call,      \* arguments of the last decrypt_and_verify call
    res,       \* outcome of the last top-level call
    bsize,     \* block size handed to get_blocks
    block_nums,\* output of get_blocks
    joined     \* result of get_bytes

vars == <<pc, msg, nonce, padded, unpadded, blob, label, text, parsed, sent, wire, call, res,
          bsize, block_nums, joined>>

(***************************************************************************)
(* Bounds of the model.                                                    *)
(***************************************************************************)
MaxMsgLen == 3

\* byte values the inputs are built from: zero, low bits, high bit, all ones
ByteVals == {0, 1, 255}

RECURSIVE SeqsUpTo(_, _)
SeqsUpTo(S, n) ==
    IF n = 0 THEN {<<>>}
    ELSE LET shorter == SeqsUpTo(S, n - 1)
         IN  shorter \cup {Append(s, b) : s \in {t \in shorter : Len(t) = n - 1}, b \in S}

Fill(n, b) == [i \in 1..n |-> b]

(***************************************************************************)
(* Python primitives used by the code.                                     *)
(***************************************************************************)
RECURSIVE BitXor(_, _)
BitXor(a, b) ==
    IF a = 0 THEN b
    ELSE IF b = 0 THEN a
    ELSE (((a % 2) + (b % 2)) % 2) + 2 * BitXor(a \div 2, b \div 2)

RECURSIVE Canon(_)
\* drop high zero digits: the digit sequence of an integer is unique
Canon(d) ==
    IF d = <<>> THEN <<>>
    ELSE IF d[Len(d)] = 0 THEN Canon(SubSeq(d, 1, Len(d) - 1))
    ELSE d

\* int.from_bytes(b, 'little')
int_from_bytes_little(b) == Canon(b)

\* can int.to_bytes(length, 'little') succeed (else OverflowError / ValueError)
to_bytes_ok(n, length) == length >= 0 /\ Len(n) <= length

\* int.to_bytes(length, 'little')
int_to_bytes_little(n, length) ==
    [i \in 1..length |-> IF i <= Len(n) THEN n[i] ELSE 0]

Digit(n, i) == IF i <= Len(n) THEN n[i] ELSE 0

Max2(a, b) == IF a >= b THEN a ELSE b

\* a ^ b on integers
IntXor(a, b) ==
    Canon([i \in 1..Max2(Len(a), Len(b)) |-> BitXor(Digit(a, i), Digit(b, i))])

\* data[:-k] and data[-k:] for k > 0, as Python slices (clamped at the start)
SliceHead(data, k) == SubSeq(data, 1, Len(data) - k)
SliceTail(data, k) == SubSeq(data, Max2(1, Len(data) - k + 1), Len(data))

(***************************************************************************)
(* sha.SHAKE256 / sha.SHA3_512: fixed deterministic stand-ins.  Only the   *)
(* contract is used: a function of the input with the requested length.    *)
(***************************************************************************)
RECURSIVE Absorb(_, _)
Absorb(data, h) ==
    IF data = <<>> THEN h
    ELSE Absorb(Tail(data), (h * 31 + Head(data) + 7) % 65521)

SHAKE256_digest(data, n) ==
    LET h == Absorb(data, 11 + Len(data))
    IN  [i \in 1..n |-> (h * (2 * i + 1) + i * i + (h \div 256)) % 256]

(***************************************************************************)
(* src/oaep.py                                                             *)
(***************************************************************************)
append_length == 32

\* random.getrandbits(k): an integer below 2^k; k is a multiple of 8 here.
\* Sampled by digit sequences over ByteVals.
GetRandBits(k) == {Canon(d) : d \in SeqsUpTo(ByteVals, k \div 8)}

\* is r a value random.getrandbits(k) can return: 0 <= r < 2^k
InGetRandBits(r, k) ==
    \/ Len(r) <= k \div 8
    \/ Len(r) = (k \div 8) + 1 /\ r[Len(r)] < 2 ^ (k % 8)

oaep_pad(message, r) ==
    LET length == Len(message)
        m      == int_from_bytes_little(message)
        x      == IntXor(int_from_bytes_little(
                      SHAKE256_digest(int_to_bytes_little(r, append_length), length)), m)
        y      == IntXor(int_from_bytes_little(
                      SHAKE256_digest(int_to_bytes_little(x, length), append_length)), r)
    IN  int_to_bytes_little(x, length) \o int_to_bytes_little(y, append_length)

\* does oaep_unpad raise on this input
oaep_unpad_raises(data) ==
    LET length == Len(data) - append_length
        x      == int_from_bytes_little(SliceHead(data, append_length))
    IN  ~to_bytes_ok(x, length)

oaep_unpad_BigEndianSplit(data) ==
    LET length == Len(data) - append_length
        y      == int_from_bytes_little(SubSeq(data, 1, append_length))
        x      == int_from_bytes_little(SubSeq(data, append_length + 1, Len(data)))
        r      == int_to_bytes_little(
                      IntXor(y, int_from_bytes_little(
                          SHAKE256_digest(int_to_bytes_little(x, length), append_length))),
                      append_length)
        m      == IntXor(x, int_from_bytes_little(SHAKE256_digest(r, length)))
    IN  int_to_bytes_little(m, length)

oaep_unpad(data) ==
    LET length == Len(data) - append_length
        x      == int_from_bytes_little(SliceHead(data, append_length))
        y      == int_from_bytes_little(SliceTail(data, append_length))
        r      == int_to_bytes_little(
                      IntXor(y, int_from_bytes_little(
                          SHAKE256_digest(int_to_bytes_little(x, length), append_length))),
                      append_length)
        m      == IntXor(x, int_from_bytes_little(SHAKE256_digest(r, length)))
    IN  int_to_bytes_little(m, length)

(***************************************************************************)
(* Text armor.  A text is a sequence of characters (one-character strings);*)
(* the label phrase of a header or footer line is kept as one token.       *)
(***************************************************************************)
None == [some |-> FALSE, bytes |-> <<>>]
Some(b) == [some |-> TRUE, bytes |-> b]

\* the base64url alphabet of RFC 4648, section 5
B64Alphabet ==
    <<"A", "B", "C", "D", "E", "F", "G", "H", "I", "J", "K", "L", "M",
       "N", "O", "P", "Q", "R", "S", "T", "U", "V", "W", "X", "Y", "Z", "a",
       "b", "c", "d", "e", "f", "g", "h", "i", "j", "k", "l", "m", "n", "o",
       "p", "q", "r", "s", "t", "u", "v", "w", "x", "y", "z", "0", "1", "2",
       "3", "4", "5", "6", "7", "8", "9", "-", "_">>

B64Chars == {B64Alphabet[i] : i \in 1..64}

\* value of a base64url character
B64Value == [c \in B64Chars |-> (CHOOSE i \in 1..64 : B64Alphabet[i] = c) - 1]

IsB64Char(c) == c \in B64Chars

ByteAt(b, k) == IF k <= Len(b) THEN b[k] ELSE 0

\* base64.urlsafe_b64encode: every three bytes give four characters, the last
\* group is filled with "="
urlsafe_b64encode(b) ==
    [p \in 1..(4 * ((Len(b) + 2) \div 3)) |->
        LET g  == (p - 1) \div 4
            r  == (p - 1) % 4
            b1 == ByteAt(b, (3 * g) + 1)
            b2 == ByteAt(b, (3 * g) + 2)
            b3 == ByteAt(b, (3 * g) + 3)
        IN  IF r = 0 THEN B64Alphabet[(b1 \div 4) + 1]
            ELSE IF r = 1 THEN B64Alphabet[((b1 % 4) * 16) + (b2 \div 16) + 1]
            ELSE IF r = 2 THEN
                (IF (3 * g) + 2 > Len(b) THEN "="
                 ELSE B64Alphabet[((b2 % 16) * 4) + (b3 \div 64) + 1])
            ELSE (IF (3 * g) + 3 > Len(b) THEN "=" ELSE B64Alphabet[(b3 % 64) + 1])]

\* bytes of a run of sextets: whole groups of four, then a group of two or three
SextetsToBytes(q) ==
    LET n == Len(q)
    IN  [j \in 1..((3 * (n \div 4)) + (IF n % 4 = 2 THEN 1 ELSE IF n % 4 = 3 THEN 2 ELSE 0)) |->
            LET g == (j - 1) \div 3
                r == (j - 1) % 3
            IN  IF r = 0 THEN (q[(4 * g) + 1] * 4) + (q[(4 * g) + 2] \div 16)
                ELSE IF r = 1 THEN ((q[(4 * g) + 2] % 16) * 16) + (q[(4 * g) + 3] \div 4)
                ELSE ((q[(4 * g) + 3] % 4) * 64) + q[(4 * g) + 4]]

\* base64.urlsafe_b64decode (binascii.a2b_base64, not strict): characters
\* outside the alphabet are skipped; a "=" that completes the padding of an open
\* group of two or three characters ends the input; a group left open at the
\* end raises (None here).
urlsafe_b64decode(s) ==
    LET f      == SelectSeq(s, LAMBDA c : IsB64Char(c) \/ c = "=")
        qp(i)  == Cardinality({k \in 1..(i - 1) : f[k] # "="}) % 4
        stops  == {i \in 1..Len(f) :
                      /\ f[i] = "="
                      /\ \/ qp(i) = 3
                         \/ qp(i) = 2 /\ i >= 2 /\ f[i - 1] = "="}
        stop   == IF stops = {} THEN Len(f) + 1
                  ELSE CHOOSE i \in stops : \A j \in stops : i <= j
        data   == SelectSeq(SubSeq(f, 1, stop - 1), LAMBDA c : c # "=")
        q      == [k \in 1..Len(data) |-> B64Value[data[k]]]
    IN  IF stops = {} /\ Len(data) % 4 # 0 THEN None
        ELSE Some(SextetsToBytes(q))

\* wrap column of the armor body and width of the header and footer lines
WrapColumn == 76

\* number of characters of a label phrase such as "BEGIN FINCRYPT MESSAGE"
PhraseLen(word, kind) ==
    (IF word = "BEGIN" THEN 5 ELSE 3) + 10
    + (IF kind = "MESSAGE" THEN 7 ELSE IF kind = "PUBLIC KEY" THEN 10 ELSE 11)

Phrase(word, kind) ==
    IF word = "BEGIN"
    THEN (IF kind = "MESSAGE" THEN "BEGIN FINCRYPT MESSAGE"
          ELSE IF kind = "PUBLIC KEY" THEN "BEGIN FINCRYPT PUBLIC KEY"
          ELSE "BEGIN FINCRYPT PRIVATE KEY")
    ELSE (IF kind = "MESSAGE" THEN "END FINCRYPT MESSAGE"
          ELSE IF kind = "PUBLIC KEY" THEN "END FINCRYPT PUBLIC KEY"
          ELSE "END FINCRYPT PRIVATE KEY")

\* (' ' + phrase + ' ').center(76, '-'): str.center puts the odd dash on the left
\* only when the width is odd too
CenterLine(word, kind) ==
    LET pad   == WrapColumn - (PhraseLen(word, kind) + 2)
        left  == (pad \div 2) + ((pad % 2) * (WrapColumn % 2))
        right == pad - left
    IN  [i \in 1..left |-> "-"] \o <<" ", Phrase(word, kind), " ">> \o [i \in 1..right |-> "-"]

\* '\n'.join([message[i:i + 76] for i in range(0, len(message), 76)])
JoinWrapped(s) ==
    [p \in 1..(IF Len(s) = 0 THEN 0 ELSE Len(s) + ((Len(s) - 1) \div WrapColumn)) |->
        LET line == (p - 1) \div (WrapColumn + 1)
            col  == (p - 1) % (WrapColumn + 1)
        IN  IF col = WrapColumn THEN "\n" ELSE s[(line * WrapColumn) + col + 1]]

\* the three writes of encrypt_text, for the label kind given
armor(b, kind) ==
    CenterLine("BEGIN", kind) \o <<"\n">>
    \o JoinWrapped(urlsafe_b64encode(b))
    \o <<"\n">> \o CenterLine("END", kind)

BeginPhrases ==
    {"BEGIN FINCRYPT MESSAGE", "BEGIN FINCRYPT KEY", "BEGIN FINCRYPT PUBLIC KEY",
     "BEGIN FINCRYPT PUBLIC MESSAGE", "BEGIN FINCRYPT PRIVATE KEY",
     "BEGIN FINCRYPT PRIVATE MESSAGE"}
EndPhrases ==
    {"END FINCRYPT MESSAGE", "END FINCRYPT KEY", "END FINCRYPT PUBLIC KEY",
     "END FINCRYPT PUBLIC MESSAGE", "END FINCRYPT PRIVATE KEY",
     "END FINCRYPT PRIVATE MESSAGE"}

\* number of "-" at t[i], t[i+1], ...
DashRun(t, i) ==
    LET past == {k \in i..(Len(t) + 1) : k = Len(t) + 1 \/ t[k] # "-"}
    IN  IF i > Len(t) THEN 0 ELSE (CHOOSE k \in past : \A j \in past : k <= j) - i

\* -+ <phrase> -+ matched at position i: the position after it, or 0
MatchLine(t, i, phrases) ==
    LET d == DashRun(t, i)
        j == i + d
    IN  IF d >= 1 /\ j + 2 <= Len(t) /\ t[j] = " " /\ t[j + 1] \in phrases /\ t[j + 2] = " "
           /\ DashRun(t, j + 3) >= 1
        THEN j + 3 + DashRun(t, j + 3)
        ELSE 0

InBodyClass_StandardAlphabet(c) ==
    (IsB64Char(c) /\ c \notin {"-", "_"}) \/ c \in {"+", "/"} \/ c = "\n" \/ c = "="

\* [a-zA-Z0-9\n\-_=]
InBodyClass(c) == IsB64Char(c) \/ c = "\n" \/ c = "="

\* ([a-zA-Z0-9\n\-_=]+[^\n]) on t[from..to]
BodyMatches(t, from, to) ==
    /\ to - from + 1 >= 2
    /\ \A k \in from..(to - 1) : InBodyClass(t[k])
    /\ t[to] # "\n"

NoMatch == [header |-> "", body |-> <<>>]

\* re.match of the header line, the body group and the footer line; the body
\* group is greedy, so the last footer that lets the whole pattern match wins.
\* (None, None) is NoMatch.
strip_headers(pem_text) ==
    LET h == MatchLine(pem_text, 1, BeginPhrases)
    IN  IF h = 0 \/ h > Len(pem_text) \/ pem_text[h] # "\n" THEN NoMatch
        ELSE LET ends == {q \in (h + 1)..Len(pem_text) :
                             /\ pem_text[q] = "\n"
                             /\ MatchLine(pem_text, q + 1, EndPhrases) # 0
                             /\ BodyMatches(pem_text, h + 1, q - 1)}
             IN  IF ends = {} THEN NoMatch
                 ELSE LET q == CHOOSE e \in ends : \A f \in ends : f <= e
                      IN  [header |-> pem_text[DashRun(pem_text, 1) + 2],
                           body |-> SubSeq(pem_text, h + 1, q - 1)]

\* ''.join(s.split('\n'))
RemoveNewlines(s) == SelectSeq(s, LAMBDA c : c # "\n")

\* read_message: raises ValueError (None here) unless the header is the message header
read_message(message_text) ==
    LET m == strip_headers(message_text)
    IN  IF m.header # "BEGIN FINCRYPT MESSAGE" THEN None ELSE Some(m.body)

\* the try block of decrypt_text: the blob, or None for 'Message was malformed.'
decrypt_text_read(message_text) ==
    LET m == read_message(message_text)
    IN  IF ~m.some THEN None ELSE urlsafe_b64decode(RemoveNewlines(m.bytes))

\* header and blob of any armored text: strip_headers, then the decoding of decrypt_text
dearmor(t) ==
    LET m == strip_headers(t)
    IN  IF m = NoMatch THEN [header |-> "", data |-> None]
        ELSE [header |-> m.header, data |-> urlsafe_b64decode(RemoveNewlines(m.body))]

(***************************************************************************)
(* sha.SHA3_512: a 64-byte digest (same stand-in construction as above,    *)
(* other constants).  Hashing None raises.                                 *)
(***************************************************************************)
SHA3_512_Len == 64

SHA3_512_digest(data) ==
    LET h == Absorb(data, 101 + (3 * Len(data)))
    IN  [i \in 1..SHA3_512_Len |-> (h * ((4 * i) + 3) + (7 * i) + (h \div 128)) % 256]

(***************************************************************************)
(* get_blocks (src/fincrypt.py): blocks of block_size bytes, each read as *)
(* a big-endian base-256 integer.                                          *)
(***************************************************************************)
Reverse(s) == [i \in 1..Len(s) |-> s[Len(s) + 1 - i]]

Min2(a, b) == IF a <= b THEN a ELSE b

get_blocks(message, block_size) ==
    [j \in 1..((Len(message) + block_size - 1) \div block_size) |->
        LET block == SubSeq(message, ((j - 1) * block_size) + 1,
                            Min2(j * block_size, Len(message)))
        IN  Canon(Reverse(block))]

RECURSIVE get_bytes_while(_, _)
\* the while loop of get_bytes on one block: block % 256 is the lowest digit,
\* block // 256 the digits above it
get_bytes_while(block, block_text) ==
    IF block = <<>> THEN block_text
    ELSE get_bytes_while(Tail(block), Append(block_text, Head(block)))

RECURSIVE get_bytes(_)
get_bytes(nums) ==
    IF nums = <<>> THEN <<>>
    ELSE Reverse(get_bytes_while(Head(nums), <<>>)) \o get_bytes(Tail(nums))

(***************************************************************************)
(* ecc: a prime-order short Weierstrass curve with a fixed generator.      *)
(* y^2 = x^3 + 2x + 2 over GF(17), generator (5, 1), group order 19.       *)
(***************************************************************************)
CurveP == 17
CurveA == 2
CurveB == 2
CurveN == 19
CurveGx == 5
CurveGy == 1

Infinity == [x |-> -1, y |-> -1]
CurveG == [x |-> CurveGx, y |-> CurveGy]

InvMod(a, m) == CHOOSE b \in 1..(m - 1) : (a * b) % m = 1

OnCurve(x, y) ==
    /\ x \in 0..(CurveP - 1) /\ y \in 0..(CurveP - 1)
    /\ ((y * y) - ((x * x * x) + (CurveA * x) + CurveB)) % CurveP = 0

PointAdd(P, Q) ==
    IF P = Infinity THEN Q
    ELSE IF Q = Infinity THEN P
    ELSE IF P.x = Q.x /\ (P.y + Q.y) % CurveP = 0 THEN Infinity
    ELSE LET lam == IF P = Q
                    THEN (((3 * P.x * P.x) + CurveA) * InvMod((2 * P.y) % CurveP, CurveP)) % CurveP
                    ELSE ((Q.y - P.y) * InvMod((Q.x - P.x) % CurveP, CurveP)) % CurveP
             x3  == ((lam * lam) - P.x - Q.x) % CurveP
         IN  [x |-> x3, y |-> ((lam * (P.x - x3)) - P.y) % CurveP]

RECURSIVE MulGStep(_)
MulGStep(k) == IF k = 0 THEN Infinity ELSE PointAdd(MulGStep(k - 1), CurveG)

\* the multiples of the generator: the whole group
MulG == [k \in 0..(CurveN - 1) |-> MulGStep(k)]

LogG(P) == CHOOSE e \in 0..(CurveN - 1) : MulG[e] = P

\* k.P for a point of the group
ScalarMult(k, P) == MulG[((k % CurveN) * LogG(P)) % CurveN]

\* value of a digit sequence modulo m
RECURSIVE PowMod(_, _, _)
PowMod(b, e, m) ==
    IF e = 0 THEN 1 % m
    ELSE LET h == PowMod(b, e \div 2, m)
         IN  IF e % 2 = 0 THEN (h * h) % m ELSE (((h * h) % m) * b) % m

RECURSIVE DigitsMod(_, _, _, _)
DigitsMod(d, lo, hi, m) ==
    IF lo > hi THEN 0
    ELSE IF lo = hi THEN d[lo] % m
    ELSE LET mid == (lo + hi) \div 2
         IN  (DigitsMod(d, lo, mid, m)
              + (PowMod(256, mid - lo + 1, m) * DigitsMod(d, mid + 1, hi, m))) % m

IntMod(n, m) == DigitsMod(n, 1, Len(n), m)

\* ECDSA.sign with the scalar u of the accepted round of its loop
ecdsa_round_ok(z, k, u) ==
    LET r == ScalarMult(u, CurveG).x % CurveN
    IN  r # 0 /\ (InvMod(u, CurveN) * (IntMod(z, CurveN) + (r * k))) % CurveN # 0

ecdsa_sign(z, k, u) ==
    LET r == ScalarMult(u, CurveG).x % CurveN
    IN  <<r, (InvMod(u, CurveN) * (IntMod(z, CurveN) + (r * k))) % CurveN>>

\* ECDSA.validate for a public point of the group
ecdsa_validate(r, s, z, Q) ==
    /\ r \in 1..(CurveN - 1) /\ s \in 1..(CurveN - 1)
    /\ LET w  == InvMod(s, CurveN)
           u1 == (IntMod(z, CurveN) * w) % CurveN
           u2 == (r * w) % CurveN
           P  == PointAdd(ScalarMult(u1, CurveG), ScalarMult(u2, Q))
       IN  P # Infinity /\ P.x % CurveN = r

\* str(n).encode('utf-8') for n >= 0
RECURSIVE DecimalString(_)
DecimalString(n) ==
    IF n < 10 THEN <<48 + n>> ELSE Append(DecimalString(n \div 10), 48 + (n % 10))

(***************************************************************************)
(* aes: AES-256-CBC with PKCS#7 padding, as an ideal block cipher.  A      *)
(* ciphertext is kept as what it decrypts to under the key material that   *)
(* made it, plus the position of a flipped ciphertext bit (0: none).       *)
(* Under any other key the block cipher is an unrelated permutation; a     *)
(* modified ciphertext block decrypts to an unrelated block and, by CBC,   *)
(* flips the same bit of the next plaintext block.                         *)
(***************************************************************************)
AesBlock == 16

Pkcs7Pad(data) ==
    data \o Fill(AesBlock - (Len(data) % AesBlock), AesBlock - (Len(data) % AesBlock))

Pkcs7Valid(data) ==
    /\ Len(data) > 0 /\ Len(data) % AesBlock = 0
    /\ data[Len(data)] \in 1..AesBlock
    /\ \A i \in (Len(data) - data[Len(data)] + 1)..Len(data) : data[i] = data[Len(data)]

Pkcs7Strip(data) == SubSeq(data, 1, Len(data) - data[Len(data)])

\* Encrypter(mode=AESModeOfOperationCBC(key, iv)).feed(data) + .feed()
aes_encrypt(key, iv, data) == [key |-> key, iv |-> iv, pt |-> Pkcs7Pad(data), flip |-> 0]

\* what an unrelated block can be: one that ends in no padding, one that ends
\* in one byte of padding
GarbageBlocks == {Fill(AesBlock, 0), Append(Fill(AesBlock - 1, 7), 1)}

\* what a whole ciphertext can decrypt to under an unrelated key
GarbagePlain(n) ==
    {Fill(n, 0), Append(Fill(n - 1, 7), 1)}

Pow2(e) == IF e = 0 THEN 1 ELSE IF e = 1 THEN 2 ELSE IF e = 2 THEN 4 ELSE IF e = 3 THEN 8
           ELSE IF e = 4 THEN 16 ELSE IF e = 5 THEN 32 ELSE IF e = 6 THEN 64 ELSE 128

\* CBC decryption of a ciphertext whose bit `flip` was flipped; g is what the
\* modified block decrypts to
FlipApply(pt, flip, g) ==
    LET bi  == (flip - 1) \div (8 * AesBlock)
        off == (flip - 1) % (8 * AesBlock)
    IN  [i \in 1..Len(pt) |->
            IF (i - 1) \div AesBlock = bi THEN g[((i - 1) % AesBlock) + 1]
            ELSE IF i = (AesBlock * (bi + 1)) + (off \div 8) + 1
                 THEN BitXor(pt[i], Pow2(off % 8))
            ELSE pt[i]]

\* the padded plaintexts Decrypter.feed can arrive at
aes_cbc_plain(key, iv, ct) ==
    IF key # ct.key \/ iv # ct.iv THEN GarbagePlain(Len(ct.pt))
    ELSE IF ct.flip = 0 THEN {ct.pt}
    ELSE LET bi   == (ct.flip - 1) \div (8 * AesBlock)
             orig == SubSeq(ct.pt, (AesBlock * bi) + 1, AesBlock * (bi + 1))
         IN  {FlipApply(ct.pt, ct.flip, g) : g \in GarbageBlocks \ {orig}}

\* Decrypter(...).feed(ct) + .feed(): the plaintext, or None where it raises
aes_decrypt(key, iv, ct) ==
    IF ct.pt = <<>> THEN {None}
    ELSE {IF Pkcs7Valid(c) THEN Some(Pkcs7Strip(c)) ELSE None : c \in aes_cbc_plain(key, iv, ct)}

(***************************************************************************)
(* Containers.  A keyfile and a message blob are kept as what each stage   *)
(* of their readers makes of them: the header strip_headers finds, whether *)
(* the base64 decodes, the number of corrupted Reed-Solomon symbols, what  *)
(* the BER decoder finds, and the values carried.                          *)
(***************************************************************************)
\* RSCodec(nsym).decode corrects up to nsym / 2 symbol errors and raises beyond
rs_decode_ok(errors, nsym) == errors <= nsym \div 2

MessageParity == 8
PublicKeyParity == 30

PublicKeyfile(k) ==
    [header |-> "BEGIN FINCRYPT PUBLIC KEY", b64 |-> TRUE, rsErrors |-> 0, der |-> "public",
     kx |-> MulG[k].x, ky |-> MulG[k].y, k |-> 0]

PrivateKeyfile(k) ==
    [header |-> "BEGIN FINCRYPT PRIVATE KEY", b64 |-> TRUE, rsErrors |-> 0, der |-> "private",
     kx |-> 0, ky |-> 0, k |-> k]

\* read_public_key: does it raise, and what it returns
read_public_key_raises(f) ==
    \/ f.header # "BEGIN FINCRYPT PUBLIC KEY"
    \/ ~f.b64
    \/ ~rs_decode_ok(f.rsErrors, PublicKeyParity)
    \/ f.der # "public"

read_public_key(f) == [kx |-> f.kx, ky |-> f.ky]

\* read_private_key: does it raise, and what it returns
read_private_key_raises(f) ==
    \/ f.header # "BEGIN FINCRYPT PRIVATE KEY"
    \/ ~f.b64
    \/ f.der # "private"

read_private_key(f) == [k |-> f.k]

(***************************************************************************)
(* src/fincrypt.py: the hybrid cipher and the signature.                   *)
(***************************************************************************)
\* key material of both directions: SHA3_512(str(s).encode('utf-8')).digest(),
\* key[:32] and key[32:48]; s is the x coordinate of the shared point
KeyMaterial(S) ==
    LET key == SHA3_512_digest(DecimalString(S.x))
    IN  [key |-> SubSeq(key, 1, 32), iv |-> SubSeq(key, 33, 48)]

encrypt_message_raises(kx, ky) == ~OnCurve(kx, ky)

\* u: the scalar ECEIS.exchange draws; r: the nonce oaep_pad draws
encrypt_message(kx, ky, message, u, r) ==
    LET R  == ScalarMult(u, CurveG)
        S  == ScalarMult(u, [x |-> kx, y |-> ky])
        km == KeyMaterial(S)
    IN  [encrypted_key |-> <<R.x, R.y>>,
         encrypted_blocks |-> aes_encrypt(km.key, km.iv, oaep_pad(message, r))]

UnpadOrNone(p) ==
    IF ~p.some \/ oaep_unpad_raises(p.bytes) THEN None ELSE Some(oaep_unpad(p.bytes))

decrypt_message_WrongSlice(k, encrypted_key, encrypted_message) ==
    IF Len(encrypted_key) < 2 \/ ~OnCurve(encrypted_key[1], encrypted_key[2])
       \/ k % CurveN = 0
    THEN {None}
    ELSE LET S  == ScalarMult(k, [x |-> encrypted_key[1], y |-> encrypted_key[2]])
             km == KeyMaterial(S)
         IN  {UnpadOrNone(p) : p \in aes_decrypt(km.key, SubSeq(km.key, 1, 16), encrypted_message)}

\* decrypt_message: the values it can return, None where it raises
decrypt_message(k, encrypted_key, encrypted_message) ==
    IF Len(encrypted_key) < 2 \/ ~OnCurve(encrypted_key[1], encrypted_key[2])
       \/ k % CurveN = 0
    THEN {None}
    ELSE LET S  == ScalarMult(k, [x |-> encrypted_key[1], y |-> encrypted_key[2]])
             km == KeyMaterial(S)
         IN  {UnpadOrNone(p) : p \in aes_decrypt(km.key, km.iv, encrypted_message)}

\* sign_message, with the scalar u of the accepted round of ECDSA.sign
sign_message(k, message, u) ==
    ecdsa_sign(get_blocks(SHA3_512_digest(message), 1024)[1], k, u)

authenticate_message_raises_NoneAsEmpty(kx, ky, plaintext, signature) ==
    \/ Len(signature) < 2
    \/ ~OnCurve(kx, ky)

\* authenticate_message raises: hashing None, a signature with fewer than two
\* numbers, a public key that is no point of the curve
authenticate_message_raises(kx, ky, plaintext, signature) ==
    \/ ~plaintext.some
    \/ Len(signature) < 2
    \/ ~OnCurve(kx, ky)

authenticate_message(kx, ky, plaintext, signature) ==
    ecdsa_validate(signature[1], signature[2],
                   get_blocks(SHA3_512_digest(plaintext.bytes), 1024)[1],
                   [x |-> kx, y |-> ky])

(***************************************************************************)
(* src/fincrypt.py: encrypt_and_sign and decrypt_and_verify.               *)
(***************************************************************************)
Raise(err) ==
    [kind |-> "raise", error |-> err, plaintext |-> None, verified |-> FALSE,
     decrypted |-> FALSE, authenticated |-> FALSE]

\* a returned pair; decrypted / authenticated: whether decrypt_message /
\* authenticate_message were called on the way
Return(p, v, d, a) ==
    [kind |-> "return", error |-> "", plaintext |-> p, verified |-> v,
     decrypted |-> d, authenticated |-> a]

NoBlob == [rsErrors |-> 0, ber |-> FALSE,
           env |-> [message |-> aes_encrypt(<<>>, <<>>, <<>>), key |-> <<>>, signature |-> <<>>]]

\* result of encrypt_and_sign: the error raised, or the blob returned
encrypt_and_sign(message, recipient_key, signer_key, u, r, su) ==
    IF read_public_key_raises(recipient_key)
    THEN [kind |-> "raise", error |-> "FinCryptDecodingError", blob |-> NoBlob]
    ELSE IF read_private_key_raises(signer_key)
    THEN [kind |-> "raise", error |-> "FinCryptDecodingError", blob |-> NoBlob]
    ELSE LET rk == read_public_key(recipient_key)
             sk == read_private_key(signer_key)
         IN  IF encrypt_message_raises(rk.kx, rk.ky)
             THEN [kind |-> "raise", error |-> "FinCryptDecodingError", blob |-> NoBlob]
             ELSE LET e == encrypt_message(rk.kx, rk.ky, message, u, r)
                  IN  [kind |-> "return", error |-> "",
                       blob |-> [rsErrors |-> 0, ber |-> TRUE,
                                 env |-> [message |-> e.encrypted_blocks,
                                          key |-> e.encrypted_key,
                                          signature |-> sign_message(sk.k, message, su)]]]

\* the last two try blocks of decrypt_and_verify
DecryptThenAuthenticate_NoExcept(decryption_key, sender_key, decoded) ==
    {IF authenticate_message_raises(sender_key.kx, sender_key.ky, d, decoded.signature)
     THEN Raise("TypeError")
     ELSE Return(d, authenticate_message(sender_key.kx, sender_key.ky, d, decoded.signature),
                 TRUE, TRUE)
     : d \in decrypt_message(decryption_key.k, decoded.key, decoded.message)}

DecryptThenAuthenticate(decryption_key, sender_key, decoded) ==
    {Return(d,
            IF authenticate_message_raises(sender_key.kx, sender_key.ky, d, decoded.signature)
            THEN FALSE
            ELSE authenticate_message(sender_key.kx, sender_key.ky, d, decoded.signature),
            TRUE, TRUE)
     : d \in decrypt_message(decryption_key.k, decoded.key, decoded.message)}

decrypt_and_verify_NoEarlyReturn(message, sender_key, private_key) ==
    IF read_private_key_raises(private_key) THEN {Raise("FinCryptDecodingError")}
    ELSE IF read_public_key_raises(sender_key) THEN {Raise("FinCryptDecodingError")}
    ELSE DecryptThenAuthenticate(read_private_key(private_key), read_public_key(sender_key),
                                 message.env)

decrypt_and_verify_BlobFirst(message, sender_key, private_key) ==
    IF ~rs_decode_ok(message.rsErrors, MessageParity) \/ ~message.ber
    THEN {Return(None, FALSE, FALSE, FALSE)}
    ELSE IF read_private_key_raises(private_key) THEN {Raise("FinCryptDecodingError")}
    ELSE IF read_public_key_raises(sender_key) THEN {Raise("FinCryptDecodingError")}
    ELSE DecryptThenAuthenticate(read_private_key(private_key), read_public_key(sender_key),
                                 message.env)

\* the outcomes decrypt_and_verify can have
decrypt_and_verify(message, sender_key, private_key) ==
    IF read_private_key_raises(private_key) THEN {Raise("FinCryptDecodingError")}
    ELSE IF read_public_key_raises(sender_key) THEN {Raise("FinCryptDecodingError")}
    ELSE IF ~rs_decode_ok(message.rsErrors, MessageParity) \/ ~message.ber
    THEN {Return(None, FALSE, FALSE, FALSE)}
    ELSE DecryptThenAuthenticate(read_private_key(private_key), read_public_key(sender_key),
                                 message.env)

(***************************************************************************)
(* Harnesses.  Each draws its inputs in the initial state and then applies *)
(* the operations under test.                                              *)
(***************************************************************************)
NoParse == [header |-> "", data |-> None]

Idle ==
    /\ padded = <<>> /\ unpadded = None
    /\ text = <<>> /\ parsed = NoParse
    /\ sent = <<>> /\ wire = <<>> /\ call = <<>> /\ res = <<>>
    /\ block_nums = <<>> /\ joined = None

OaepInit ==
    /\ pc = "start"
    /\ msg \in SeqsUpTo(ByteVals, MaxMsgLen)
    /\ nonce = <<>>
    /\ blob = <<>> /\ label = ""
    /\ bsize = 256
    /\ Idle

\* oaep_pad when its call of random.getrandbits(append_length) returns r
OaepPadWith(r) ==
    /\ pc = "start"
    /\ InGetRandBits(r, append_length)
    /\ nonce' = r
    /\ padded' = oaep_pad(msg, r)
    /\ pc' = "padded"
    /\ UNCHANGED <<msg, unpadded, blob, label, text, parsed, sent, wire, call, res, bsize, block_nums, joined>>

OaepPad == \E r \in GetRandBits(append_length) : OaepPadWith(r)

OaepUnpad ==
    /\ pc = "padded"
    /\ unpadded' = IF oaep_unpad_raises(padded) THEN None ELSE Some(oaep_unpad(padded))
    /\ pc' = "unpadded"
    /\ UNCHANGED <<msg, nonce, padded, blob, label, text, parsed, sent, wire, call, res, bsize, block_nums, joined>>

OaepNext == OaepPad \/ OaepUnpad

SpecOaep == OaepInit /\ [][OaepNext]_vars

\* C10: once oaep_unpad has run on the output of oaep_pad, it has not raised and
\* its result is the message that was padded, for every message and nonce drawn.
C10_OaepRoundTrip ==
    pc = "unpadded" => unpadded = Some(msg)

\* C10 witness: a message with a leading and a trailing zero byte went through.
C10_Witness ==
    /\ pc = "unpadded"
    /\ Len(msg) = 3 /\ msg[1] = 0 /\ msg[3] = 0
    /\ nonce # <<>>
    /\ unpadded = Some(msg)

\* 32-byte strings: one byte set at the low end, at the fourth and fifth
\* byte and at the high end, and all bytes set
NonceStrings ==
    {[i \in 1..append_length |-> IF i = p THEN v ELSE 0] :
        p \in {1, 4, 5, append_length}, v \in ByteVals}
    \cup {Fill(append_length, 255)}

\* C11: before oaep_pad draws, every string of append_length = 32 bytes is a
\* value the draw of the nonce r can take: the integer of any such string meets
\* the guard under which oaep_pad runs with that r.
C11_NonceFullRange ==
    pc = "start" =>
        \A s \in NonceStrings : InGetRandBits(int_from_bytes_little(s), append_length)

\* blobs long enough for one full body line, and for a wrapped second line
MaxBlobLen == 3
LongBlobLens == {57, 58}
LabelKinds == {"MESSAGE", "PUBLIC KEY", "PRIVATE KEY"}

ArmorInit ==
    /\ pc = "start"
    /\ blob \in SeqsUpTo(ByteVals, MaxBlobLen)
               \cup {Fill(n, v) : n \in LongBlobLens, v \in ByteVals}
    /\ label \in LabelKinds
    /\ msg = <<>> /\ nonce = <<>>
    /\ bsize = 256
    /\ Idle

\* the writes of encrypt_text
ArmorWrite ==
    /\ pc = "start"
    /\ text' = armor(blob, label)
    /\ pc' = "armored"
    /\ UNCHANGED <<msg, nonce, padded, unpadded, blob, label, parsed, sent, wire, call, res, bsize, block_nums, joined>>

\* the reads of decrypt_text (messages) and of the key readers (keys)
ArmorRead ==
    /\ pc = "armored"
    /\ parsed' = IF label = "MESSAGE"
                 THEN [header |-> strip_headers(text).header, data |-> decrypt_text_read(text)]
                 ELSE dearmor(text)
    /\ pc' = "parsed"
    /\ UNCHANGED <<msg, nonce, padded, unpadded, blob, label, text, sent, wire, call, res, bsize, block_nums, joined>>

ArmorNext == ArmorWrite \/ ArmorRead

SpecArmor == ArmorInit /\ [][ArmorNext]_vars

\* C9 as stated: reading the armored text back gives the label and the blob,
\* for every blob.
C9_ArmorRoundTrip_Original ==
    pc = "parsed" => parsed = [header |-> Phrase("BEGIN", label), data |-> Some(blob)]

\* C9 as amended: reading the armored text back gives the label and the blob,
\* for every blob that is not empty.
C9_ArmorRoundTrip ==
    (pc = "parsed" /\ blob # <<>>)
        => parsed = [header |-> Phrase("BEGIN", label), data |-> Some(blob)]

\* C9 witness: a message blob whose body wraps onto a second line came back.
C9_Witness ==
    /\ pc = "parsed" /\ label = "MESSAGE"
    /\ Len(urlsafe_b64encode(blob)) > WrapColumn
    /\ parsed.data = Some(blob)

(***************************************************************************)
(* Harness for get_blocks / get_bytes.                                     *)
(***************************************************************************)
MaxBlockSize == 3
\* small block sizes, and the default of get_blocks
BlockSizes == (1..MaxBlockSize) \cup {256}

BlocksInit ==
    /\ pc = "start"
    /\ msg \in SeqsUpTo(ByteVals, MaxMsgLen)
    /\ bsize \in BlockSizes
    /\ nonce = <<>> /\ blob = <<>> /\ label = ""
    /\ Idle

GetBlocks ==
    /\ pc = "start"
    /\ block_nums' = get_blocks(msg, bsize)
    /\ pc' = "blocks"
    /\ UNCHANGED <<msg, nonce, padded, unpadded, blob, label, text, parsed, sent, wire, call, res,
                   bsize, joined>>

GetBytes ==
    /\ pc = "blocks"
    /\ joined' = Some(get_bytes(block_nums))
    /\ pc' = "joined"
    /\ UNCHANGED <<msg, nonce, padded, unpadded, blob, label, text, parsed, sent, wire, call, res,
                   bsize, block_nums>>

BlocksNext == GetBlocks \/ GetBytes

SpecBlocks == BlocksInit /\ [][BlocksNext]_vars

\* C12: get_bytes applied to the blocks get_blocks made of a message gives the
\* message back, for every message and every block size of at least 1.
C12_GetBytesReversesGetBlocks ==
    pc = "joined" => joined = Some(msg)

(***************************************************************************)
(* Harness for the envelope: one encrypt_and_sign, the blob possibly       *)
(* modified in transit, one decrypt_and_verify.                            *)
(***************************************************************************)
MaxPlainLen == 1
PlainBytes == {0, 72}
Plaintexts == SeqsUpTo(PlainBytes, MaxPlainLen)

\* private scalars of the identities; 14 = CurveN - 5 is the negative of 5
PrivateScalars == {3, 5, 14}
ExchangeScalars == {2, 6}
\* scalars ECDSA.sign draws; 7.G has x = 0, so that round is rejected
SignScalars == {4, 7}
\* private scalars of the identities that sign
SignerScalars == {3, 5}
EnvelopeNonces == {<<>>, Fill(4, 255)}

GoodPublicKeyfiles == {PublicKeyfile(k) : k \in PrivateScalars \ {14}}
GoodPrivateKeyfiles == {PrivateKeyfile(k) : k \in PrivateScalars}

\* structurally malformed keyfiles: no armor, the label of the other role,
\* base64 that does not decode, more symbol errors than the parity corrects,
\* bytes that are not the ASN.1 structure
MalformedPublicKeyfiles ==
    {[PublicKeyfile(3) EXCEPT !.header = ""],
     [PublicKeyfile(3) EXCEPT !.header = "BEGIN FINCRYPT PRIVATE KEY"],
     [PublicKeyfile(3) EXCEPT !.b64 = FALSE],
     [PublicKeyfile(3) EXCEPT !.rsErrors = (PublicKeyParity \div 2) + 1],
     [PublicKeyfile(3) EXCEPT !.der = "junk"]}

MalformedPrivateKeyfiles ==
    {[PrivateKeyfile(3) EXCEPT !.header = ""],
     [PrivateKeyfile(3) EXCEPT !.header = "BEGIN FINCRYPT PUBLIC KEY"],
     [PrivateKeyfile(3) EXCEPT !.b64 = FALSE],
     [PrivateKeyfile(3) EXCEPT !.der = "junk"]}

\* structurally valid public keyfiles whose numbers are no public key:
\* a point off the curve, a coordinate out of range
InvalidPointKeyfiles ==
    {[PublicKeyfile(3) EXCEPT !.ky = MulG[3].y + 1],
     [PublicKeyfile(3) EXCEPT !.kx = MulG[3].x + CurveP]}

\* a public keyfile with as many symbol errors as the parity still corrects
DamagedPublicKeyfiles == {[PublicKeyfile(14) EXCEPT !.rsErrors = PublicKeyParity \div 2]}

PublicKeyfiles ==
    GoodPublicKeyfiles \cup DamagedPublicKeyfiles \cup MalformedPublicKeyfiles
    \cup InvalidPointKeyfiles
PrivateKeyfiles == GoodPrivateKeyfiles \cup MalformedPrivateKeyfiles
SignerKeyfiles == {PrivateKeyfile(k) : k \in SignerScalars} \cup MalformedPrivateKeyfiles

WellFormedPublic(f) == f \in GoodPublicKeyfiles \cup DamagedPublicKeyfiles
WellFormedPrivate(f) == f \in GoodPrivateKeyfiles

\* the private keyfile that belongs to a well-formed public keyfile
Matches(pub, priv) ==
    /\ WellFormedPublic(pub) /\ WellFormedPrivate(priv)
    /\ [x |-> pub.kx, y |-> pub.ky] = MulG[priv.k]

Init ==
    /\ pc = "start"
    /\ msg = <<>> /\ nonce = <<>> /\ blob = <<>> /\ label = ""
    /\ bsize = 256
    /\ Idle

EncryptAndSign ==
    /\ pc = "start"
    /\ \E m \in Plaintexts, rk \in PublicKeyfiles, sk \in SignerKeyfiles,
          u \in ExchangeScalars, r \in EnvelopeNonces, su \in SignScalars :
          /\ ~read_private_key_raises(sk)
                => ecdsa_round_ok(get_blocks(SHA3_512_digest(m), 1024)[1], sk.k, su)
          /\ LET out == encrypt_and_sign(m, rk, sk, u, r, su)
             IN  /\ sent' = [message |-> m, recipient |-> rk, signer |-> sk]
                 /\ res' = [kind |-> out.kind, error |-> out.error]
                 /\ wire' = out.blob
                 /\ pc' = IF out.kind = "return" THEN "sent" ELSE "failed"
    /\ UNCHANGED <<msg, nonce, padded, unpadded, blob, label, text, parsed, call, bsize, block_nums, joined>>

\* one bit of the ciphertext inside the envelope is flipped and the envelope
\* is framed again: the first bit of a block, or the last bit of all
FlipPositions(ct) ==
    {(8 * AesBlock * b) + 1 : b \in 0..((Len(ct.pt) \div AesBlock) - 1)} \cup {8 * Len(ct.pt)}

Tamper ==
    /\ pc = "sent"
    /\ \E f \in FlipPositions(wire.env.message) :
          wire' = [wire EXCEPT !.env.message.flip = f]
    /\ pc' = "tampered"
    /\ UNCHANGED <<msg, nonce, padded, unpadded, blob, label, text, parsed, sent, call, res, bsize, block_nums, joined>>

\* symbols of the framed blob are corrupted: as many as the parity corrects,
\* or one more
Damage ==
    /\ pc = "sent"
    /\ \E e \in {MessageParity \div 2, (MessageParity \div 2) + 1} :
          wire' = [wire EXCEPT !.rsErrors = e]
    /\ pc' = "damaged"
    /\ UNCHANGED <<msg, nonce, padded, unpadded, blob, label, text, parsed, sent, call, res, bsize, block_nums, joined>>

\* another blob takes the place of the one sent: bytes that are no envelope,
\* or an envelope with one field replaced
Forge ==
    /\ pc = "sent"
    /\ \/ wire' = [wire EXCEPT !.ber = FALSE]
       \/ \E k \in {<<>>, <<wire.env.key[1]>>, <<1, 1>>} :
             wire' = [wire EXCEPT !.env.key = k]
       \/ \E g \in {<<>>, <<wire.env.signature[1]>>, <<0, 0>>,
                    <<wire.env.signature[1], CurveN>>,
                    <<wire.env.signature[1], (wire.env.signature[2] % (CurveN - 1)) + 1>>} :
             wire' = [wire EXCEPT !.env.signature = g]
       \/ wire' = [wire EXCEPT !.env.message = aes_encrypt(<<>>, <<>>, <<>>),
                               !.env.message.pt = <<>>]
    /\ pc' = "forged"
    /\ UNCHANGED <<msg, nonce, padded, unpadded, blob, label, text, parsed, sent, call, res, bsize, block_nums, joined>>

DecryptAndVerify ==
    /\ pc \in {"sent", "tampered", "damaged", "forged"}
    /\ \E sender \in PublicKeyfiles, private \in PrivateKeyfiles :
          /\ call' = [sender |-> sender, private |-> private, blob |-> pc]
          /\ res' \in decrypt_and_verify(wire, sender, private)
    /\ pc' = "received"
    /\ UNCHANGED <<msg, nonce, padded, unpadded, blob, label, text, parsed, sent, wire, bsize, block_nums, joined>>

Next == EncryptAndSign \/ Tamper \/ Damage \/ Forge \/ DecryptAndVerify

Spec == Init /\ [][Next]_vars

\* the receiving call was made on the blob as sent, with the sender's public
\* key and the recipient's private key
HonestDelivery ==
    /\ pc = "received" /\ call.blob = "sent"
    /\ Matches(call.sender, sent.signer)
    /\ Matches(sent.recipient, call.private)

\* C1: decrypt_and_verify of what encrypt_and_sign returned, with the matching
\* keys, returns the plaintext and True, whatever scalars and nonce were drawn.
C1_RoundTrip ==
    HonestDelivery => res = Return(Some(sent.message), TRUE, TRUE, TRUE)

\* C1 witness: the empty plaintext made the round trip.
C1_Witness ==
    HonestDelivery /\ sent.message = <<>> /\ res.plaintext = Some(<<>>) /\ res.verified

BlobUndecodable == ~rs_decode_ok(wire.rsErrors, MessageParity) \/ ~wire.ber

\* C3: with both keyfiles well-formed, a blob that fails Reed-Solomon decoding
\* or that the decoder does not accept as a FinCryptMessage gives (None, False),
\* and neither decrypt_message nor authenticate_message is called.
C3_UndecodableBlob ==
    (pc = "received" /\ WellFormedPublic(call.sender) /\ WellFormedPrivate(call.private)
     /\ BlobUndecodable)
        => res = Return(None, FALSE, FALSE, FALSE)

\* C3 witness: a blob with one symbol error more than parity 8 corrects was
\* handed in with well-formed keyfiles.
C3_Witness ==
    /\ pc = "received" /\ call.blob = "damaged"
    /\ wire.rsErrors = (MessageParity \div 2) + 1 /\ wire.ber
    /\ WellFormedPublic(call.sender) /\ WellFormedPrivate(call.private)
    /\ res = Return(None, FALSE, FALSE, FALSE)

\* C4: with both keyfiles well-formed, decrypt_and_verify ends by returning a
\* pair, for every blob.
C4_NeverRaises ==
    (pc = "received" /\ WellFormedPublic(call.sender) /\ WellFormedPrivate(call.private))
        => res.kind = "return"

\* C4 witness: a forged envelope whose signature holds one number only made
\* authenticate_message raise, and the call returned.
C4_Witness ==
    /\ pc = "received" /\ call.blob = "forged"
    /\ WellFormedPublic(call.sender) /\ WellFormedPrivate(call.private)
    /\ Len(wire.env.signature) = 1 /\ res.authenticated
    /\ res.kind = "return" /\ res.plaintext.some /\ ~res.verified

\* C5: a structurally malformed keyfile makes encrypt_and_sign and
\* decrypt_and_verify raise FinCryptDecodingError; decrypt_and_verify does so
\* whatever the blob is.
C5_MalformedKeyfile ==
    /\ (pc \in {"sent", "failed"}
        /\ (sent.recipient \in MalformedPublicKeyfiles
            \/ sent.signer \in MalformedPrivateKeyfiles))
           => (pc = "failed" /\ res = [kind |-> "raise", error |-> "FinCryptDecodingError"])
    /\ (pc = "received"
        /\ (call.sender \in MalformedPublicKeyfiles
            \/ call.private \in MalformedPrivateKeyfiles))
           => res = Raise("FinCryptDecodingError")

\* C5 witness: a malformed sender keyfile together with an undecodable blob.
C5_Witness ==
    /\ pc = "received" /\ BlobUndecodable
    /\ call.sender \in MalformedPublicKeyfiles /\ WellFormedPrivate(call.private)
    /\ res = Raise("FinCryptDecodingError")

\* C6: a structurally valid sender keyfile whose numbers are out of range or no
\* point of the curve makes decrypt_and_verify raise instead of returning a pair.
C6_InvalidPointRejected ==
    (pc = "received" /\ call.blob = "sent" /\ call.sender \in InvalidPointKeyfiles
     /\ Matches(sent.recipient, call.private))
        => res.kind = "raise"

\* C7: a blob as sent, decrypted with a well-formed private key that is not the
\* recipient's, gives plaintext None.
C7_WrongRecipient ==
    (pc = "received" /\ call.blob = "sent"
     /\ WellFormedPublic(call.sender) /\ WellFormedPrivate(call.private)
     /\ WellFormedPublic(sent.recipient) /\ ~Matches(sent.recipient, call.private))
        => ~res.plaintext.some

\* C8: after one ciphertext bit was flipped, decrypt_and_verify with the right
\* keys returns (None, False) or (m', False) with m' other than the plaintext sent.
C8_Tampering ==
    (pc = "received" /\ call.blob = "tampered"
     /\ Matches(call.sender, sent.signer) /\ Matches(sent.recipient, call.private))
        => (res.kind = "return" /\ ~res.verified /\ res.plaintext # Some(sent.message))

====
